---- MODULE Spec2Model ----
(***************************************************************************)
(* Model of the two scripts of SDP_PROJ_:                                  *)
(*   stt_script.py  transcribe_audio_file(file_path) and its entry point   *)
(*   tts_script.py  synthesize_text(text_to_speak, output_filename) and    *)
(*                  its entry point                                        *)
(* The cloud client library is an external collaborator: creating a       *)
(* client and calling it either succeeds or raises, chosen by the          *)
(* environment at the step where the code makes the call.  The file system *)
(* is a map from path to content; another process may create or remove     *)
(* the audio file while the transcription script runs, and two synthesis   *)
(* invocations may run at the same time.                                   *)
(***************************************************************************)
EXTENDS Integers, Sequences, FiniteSets, TLC

VARIABLES
    script,          \* which script was launched: "stt" or "tts"
    fs,              \* file system: path -> content (a byte sequence) or Absent
    envChanges,      \* how often another process created/removed the audio file
    \* ---- stt_script.py, one invocation
    stt_pc,          \* position in stt_script.py
    stt_entry,       \* "none", "main" (__main__ block) or "call" (direct call)
    stt_client,      \* "none" or "created" (speech.SpeechClient())
    audio_file,      \* the handle of `with open(file_path, "rb") as audio_file`
    content,         \* the bytes read from the audio file
    stt_response,    \* what client.recognize did: NoReply, a reply or a raised error
    stt_calls,       \* number of client.recognize calls made
    stt_i,           \* position of the for loop in response.results
    stt_stdout,      \* the lines printed
    stt_outcome,     \* "running", "returned" or the name of the raised error
    \* ---- tts_script.py, one entry per invocation
    tts_pc,          \* position in tts_script.py
    text_to_speak,   \* parameter
    output_filename, \* parameter
    tts_response,    \* what client.synthesize_speech did
    tts_calls,       \* number of client.synthesize_speech calls made
    out,             \* the handle of `with open(output_filename, "wb") as out`
    tts_stdout,      \* the lines printed
    tts_outcome,     \* "running", "returned" or the name of the raised error
    fs_at_call       \* the file system as it was when synthesize_text was called

sttVars == <<stt_pc, stt_entry, stt_client, audio_file, content, stt_response,
             stt_calls, stt_i, stt_stdout, stt_outcome>>
ttsVars == <<tts_pc, text_to_speak, output_filename, tts_response, tts_calls,
             out, tts_stdout, tts_outcome, fs_at_call>>
vars == <<script, fs, envChanges, sttVars, ttsVars>>

----------------------------------------------------------------------------
\* Bounds of the model

\* longest short payload (one that fits the writer's buffer), in bytes
MaxLen == 1
\* longest response.results sequence
MaxResults == 2
\* how often another process may create or remove the audio file during a run
MaxEnvChanges == 1
\* how many raw writes may come back short (fewer bytes than asked) during a run
MaxShortWrites == 1

----------------------------------------------------------------------------
\* Values

Procs == {1, 2}
Bytes == {0, 1}
\* the value of fs at a path where no file exists (no content has a negative byte)
Absent == <<-1>>
NoReply == [status |-> "none", error |-> "", results |-> <<>>, audio_content |-> <<>>]

BoundedSeq(S, n) == UNION {[1..k -> S] : k \in 0..n}

audio_file_name == "audio.wav"
default_output_filename == "output.mp3"
OtherOutput == "speech.mp3"
OutPaths == {default_output_filename, OtherOutput}
Paths == {audio_file_name} \cup OutPaths

my_project_text ==
    "Hello! I am a speech synthesis feature. This is an example of text-to-speech in Python using the Google Cloud API."
\* the text a direct caller passes: the function hands it to the client as it is
Texts == {my_project_text}

\* failures that originate in the cloud client library
RemoteErrors == {"Unauthenticated", "ResourceExhausted", "InvalidArgument"}
\* the client constructor fails when no credentials are configured
CredentialsError == "DefaultCredentialsError"

\* the size of the buffer of the writer that open(output_filename, "wb") returns:
\* the block size of the file's device
BufferSize == 4096

\* content of a file that existed before a synthesis run: longer than any of the
\* short payloads
OldContent == [k \in 1..(MaxLen + 1) |-> 7]
AudioData == <<1, 0>>
\* a payload that does not fit the writer's buffer, by two bytes: after a raw write
\* of one byte the rest still does not fit
BigPayload == [k \in 1..(BufferSize + 2) |-> 1]
\* response.audio_content: the short payloads, and one above the buffer size
Payloads == BoundedSeq(Bytes, MaxLen) \cup {BigPayload}

\* the byte counts one raw write of r bytes can return, `short` raw writes having
\* come back short already: all r bytes or, short, one byte or all but one.  Of
\* BigPayload, one byte leaves more than the buffer holds and all but one leaves
\* less: the two cases out.write tells apart
RawWriteCounts(r, short) ==
    {r} \cup {j \in 1..(r - 1) :
                 /\ short < MaxShortWrites
                 /\ j = 1 \/ j = r - 1}

\* response.results entries: each has one or more alternatives, the confidence is
\* kept in thousandths
ResultPool ==
    { [alternatives |-> <<[transcript |-> "hello", confidence |-> 456]>>],
      [alternatives |-> <<[transcript |-> "good day", confidence |-> 999],
                          [transcript |-> "good bay", confidence |-> 4]>>],
      [alternatives |-> <<[transcript |-> "", confidence |-> 125]>>] }
Responses == BoundedSeq(ResultPool, MaxResults)

\* a printed line
Line(kind, text, num) == [kind |-> kind, text |-> text, num |-> num]

\* the ties c/1000 = x.xx5, c in 0..1000, that f"{x:.2f}" prints rounded down: the
\* format rounds the exact value of the binary double, half to even, so a tie goes
\* down when the double nearest to c/1000 lies below it (0.015) or lies on it with
\* an even digit before it (0.125)
TiesRoundedDown ==
    { 15, 45, 75, 105, 125, 145, 155, 175, 185, 205, 215, 235, 245, 285, 295, 305,
      345, 355, 365, 415, 425, 435, 475, 485, 495, 565, 575, 585, 595, 605, 615,
      625, 695, 705, 715, 725, 735, 745, 815, 825, 835, 845, 855, 865, 945, 955,
      965, 975, 985, 995 }

\* f"{x:.2f}": a confidence in thousandths (0..1000) printed to two decimals
\* (hundredths)
Format2(c) == IF c \in TiesRoundedDown THEN c \div 10 ELSE (c + 5) \div 10

----------------------------------------------------------------------------
\* File handles and file content

\* a file handle: its state; the position of the raw file; for a handle opened for
\* reading, the content it reads; for one opened for writing, the bytes that
\* out.write has put into the writer's buffer and that have not reached the file,
\* and how many of its raw writes came back short
NoHandle == [state |-> "none", data |-> <<>>, pos |-> 0, short |-> 0]

\* open(file_path, "rb"): the handle reads the content the file has when opened
OpenForRead(old) == [NoHandle EXCEPT !.state = "open", !.data = old]

\* open(output_filename, "wb"): an existing file is truncated, a missing one created
OpenNoTruncate(old) == IF old = Absent THEN <<>> ELSE old
OpenForWrite(old) == <<>>

\* a raw write of `data` at position pos onto the file's content: the bytes
\* replace what is there, the file grows as needed, and a gap between the end of
\* the file (another process truncated it) and pos reads as zero bytes
WriteAt(old, pos, data) ==
    LET cur == IF old = Absent THEN <<>> ELSE old
        head == IF pos <= Len(cur) THEN SubSeq(cur, 1, pos)
                ELSE cur \o [k \in 1..(pos - Len(cur)) |-> 0]
    IN  head \o data \o SubSeq(cur, pos + Len(data) + 1, Len(cur))

\* the handle after a raw write of j of the r bytes asked for
AfterRawWrite(h, j, r) ==
    [h EXCEPT !.pos = @ + j, !.short = IF j < r THEN @ + 1 ELSE @]

\* how many raw writes of the handles hs came back short
RECURSIVE ShortWrites(_, _)
ShortWrites(hs, S) ==
    IF S = {} THEN 0
    ELSE LET i == CHOOSE x \in S : TRUE
         IN  hs[i].short + ShortWrites(hs, S \ {i})

\* leaving a `with open(...) as f` block, normally or by an exception, closes f
WithExitLeavesOpen(h) == h
WithExit(h) == [h EXCEPT !.state = "closed"]

----------------------------------------------------------------------------
\* Initial state: nothing launched yet; the files the launched script works on may
\* or may not exist (the files it never touches are left out of the file system,
\* and the output paths either all hold an old file or none does)

Init ==
    /\ script \in {"stt", "tts"}
    /\ fs \in {f \in [Paths -> {Absent, AudioData, OldContent}] :
                 /\ f[audio_file_name] \in
                        (IF script = "stt" THEN {Absent, AudioData} ELSE {Absent})
                 /\ \A p \in OutPaths : f[p] \in
                        (IF script = "tts" THEN {Absent, OldContent} ELSE {Absent})
                 /\ \A p, q \in OutPaths : f[p] = f[q]}
    /\ envChanges = 0
    /\ stt_pc = "idle"
    /\ stt_entry = "none"
    /\ stt_client = "none"
    /\ audio_file = NoHandle
    /\ content = <<>>
    /\ stt_response = NoReply
    /\ stt_calls = 0
    /\ stt_i = 0
    /\ stt_stdout = <<>>
    /\ stt_outcome = "running"
    /\ tts_pc = [i \in Procs |-> "idle"]
    /\ text_to_speak = [i \in Procs |-> ""]
    /\ output_filename = [i \in Procs |-> default_output_filename]
    /\ tts_response = [i \in Procs |-> NoReply]
    /\ tts_calls = [i \in Procs |-> 0]
    /\ out = [i \in Procs |-> NoHandle]
    /\ tts_stdout = [i \in Procs |-> <<>>]
    /\ tts_outcome = [i \in Procs |-> "running"]
    /\ fs_at_call = [i \in Procs |-> fs]

----------------------------------------------------------------------------
\* stt_script.py

\* the script is run: __main__ sets audio_file_name
SttMain ==
    /\ script = "stt"
    /\ stt_pc = "idle"
    /\ stt_entry' = "main"
    /\ stt_pc' = "check_exists"
    /\ UNCHANGED <<script, fs, envChanges, stt_client, audio_file, content,
                   stt_response, stt_calls, stt_i, stt_stdout, stt_outcome, ttsVars>>

\* if not os.path.exists(audio_file_name): two messages; else: call the function
SttMainCheck ==
    /\ stt_pc = "check_exists"
    /\ IF fs[audio_file_name] = Absent
       THEN /\ stt_stdout' = stt_stdout \o
                   << Line("not_found", audio_file_name, 0),
                      Line("please_place", "", 0) >>
            /\ stt_pc' = "done"
            /\ stt_outcome' = "returned"
       ELSE /\ stt_pc' = "create_client"
            /\ UNCHANGED <<stt_stdout, stt_outcome>>
    /\ UNCHANGED <<script, fs, envChanges, stt_entry, stt_client, audio_file, content,
                   stt_response, stt_calls, stt_i, ttsVars>>

\* transcribe_audio_file(audio_file_name) called by some other caller
transcribe_audio_file ==
    /\ script = "stt"
    /\ stt_pc = "idle"
    /\ stt_entry' = "call"
    /\ stt_pc' = "create_client"
    /\ UNCHANGED <<script, fs, envChanges, stt_client, audio_file, content,
                   stt_response, stt_calls, stt_i, stt_stdout, stt_outcome, ttsVars>>

\* client = speech.SpeechClient(): the first statement of the function
SttCreateClient ==
    /\ stt_pc = "create_client"
    /\ \/ /\ stt_client' = "created"
          /\ stt_pc' = "open"
          /\ UNCHANGED stt_outcome
       \/ /\ stt_outcome' = CredentialsError
          /\ stt_pc' = "done"
          /\ UNCHANGED stt_client
    /\ UNCHANGED <<script, fs, envChanges, stt_entry, audio_file, content,
                   stt_response, stt_calls, stt_i, stt_stdout, ttsVars>>

\* with open(file_path, "rb") as audio_file
SttOpen ==
    /\ stt_pc = "open"
    /\ IF fs[audio_file_name] = Absent
       THEN /\ stt_outcome' = "FileNotFoundError"
            /\ stt_pc' = "done"
            /\ UNCHANGED audio_file
       ELSE \/ /\ audio_file' = OpenForRead(fs[audio_file_name])
               /\ stt_pc' = "read"
               /\ UNCHANGED stt_outcome
            \/ /\ stt_outcome' = "PermissionError"
               /\ stt_pc' = "done"
               /\ UNCHANGED audio_file
    /\ UNCHANGED <<script, fs, envChanges, stt_entry, stt_client, content,
                   stt_response, stt_calls, stt_i, stt_stdout, ttsVars>>

\* content = audio_file.read(), then the with block is left
SttRead ==
    /\ stt_pc = "read"
    /\ \/ /\ content' = audio_file.data
          /\ audio_file' = WithExit(audio_file)
          /\ stt_pc' = "print_sending"
          /\ UNCHANGED stt_outcome
       \/ /\ audio_file' = WithExit(audio_file)
          /\ stt_outcome' = "OSError"
          /\ stt_pc' = "done"
          /\ UNCHANGED content
    /\ UNCHANGED <<script, fs, envChanges, stt_entry, stt_client,
                   stt_response, stt_calls, stt_i, stt_stdout, ttsVars>>

\* print(f"Sending audio file '{file_path}' to Google for transcription...")
SttPrintSending ==
    /\ stt_pc = "print_sending"
    /\ stt_stdout' = Append(stt_stdout, Line("sending", audio_file_name, 0))
    /\ stt_pc' = "recognize"
    /\ UNCHANGED <<script, fs, envChanges, stt_entry, stt_client, audio_file, content,
                   stt_response, stt_calls, stt_i, stt_outcome, ttsVars>>

\* client.recognize raised e: nothing in the function or the entry point catches it
RecognizeCaught(e) ==
    /\ stt_response' = [NoReply EXCEPT !.status = "raised", !.error = e]
    /\ stt_outcome' = "returned"
    /\ stt_pc' = "done"
    /\ stt_i' = stt_i
RecognizeRetried(e) ==
    /\ stt_calls < 3
    /\ stt_response' = [NoReply EXCEPT !.status = "raised", !.error = e]
    /\ stt_outcome' = stt_outcome
    /\ stt_pc' = "recognize"
    /\ stt_i' = stt_i
RecognizeRaises(e) ==
    /\ stt_response' = [NoReply EXCEPT !.status = "raised", !.error = e]
    /\ stt_outcome' = e
    /\ stt_pc' = "done"
    /\ stt_i' = stt_i

\* response = client.recognize(config=config, audio=audio)
SttRecognize ==
    /\ stt_pc = "recognize"
    /\ stt_calls' = stt_calls + 1
    /\ \/ \E r \in Responses :
            /\ stt_response' = [NoReply EXCEPT !.status = "ok", !.results = r]
            /\ stt_i' = 1
            /\ stt_pc' = "results"
            /\ UNCHANGED stt_outcome
       \/ \E e \in RemoteErrors : RecognizeRaises(e)
    /\ UNCHANGED <<script, fs, envChanges, stt_entry, stt_client, audio_file, content,
                   stt_stdout, ttsVars>>

\* the three lines printed for one entry of response.results
ResultLinesLastAlternative(result) ==
    LET alt == result.alternatives[Len(result.alternatives)]
    IN  << Line("separator", "------------------------------", 0),
           Line("transcript", alt.transcript, 0),
           Line("confidence", "", Format2(alt.confidence)) >>
ResultLines(result) ==
    << Line("separator", "------------------------------", 0),
       Line("transcript", result.alternatives[1].transcript, 0),
       Line("confidence", "", Format2(result.alternatives[1].confidence)) >>

\* for result in response.results: one iteration, or the end of the loop
SttLoop ==
    /\ stt_pc = "results"
    /\ IF stt_i <= Len(stt_response.results)
       THEN /\ stt_stdout' = stt_stdout \o ResultLines(stt_response.results[stt_i])
            /\ stt_i' = stt_i + 1
            /\ UNCHANGED <<stt_pc, stt_outcome>>
       ELSE /\ stt_pc' = "done"
            /\ stt_outcome' = "returned"
            /\ UNCHANGED <<stt_stdout, stt_i>>
    /\ UNCHANGED <<script, fs, envChanges, stt_entry, stt_client, audio_file, content,
                   stt_response, stt_calls, ttsVars>>

\* another process removes or creates the audio file while the script runs
EnvRemoveAudio ==
    /\ script = "stt"
    /\ stt_pc \notin {"idle", "done"}
    /\ envChanges < MaxEnvChanges
    /\ fs[audio_file_name] # Absent
    /\ fs' = [fs EXCEPT ![audio_file_name] = Absent]
    /\ envChanges' = envChanges + 1
    /\ UNCHANGED <<script, sttVars, ttsVars>>

EnvCreateAudio ==
    /\ script = "stt"
    /\ stt_pc \notin {"idle", "done"}
    /\ envChanges < MaxEnvChanges
    /\ fs[audio_file_name] = Absent
    /\ fs' = [fs EXCEPT ![audio_file_name] = AudioData]
    /\ envChanges' = envChanges + 1
    /\ UNCHANGED <<script, sttVars, ttsVars>>

SttNext ==
    \/ SttMain
    \/ SttMainCheck
    \/ transcribe_audio_file
    \/ SttCreateClient
    \/ SttOpen
    \/ SttRead
    \/ SttPrintSending
    \/ SttRecognize
    \/ SttLoop
    \/ EnvRemoveAudio
    \/ EnvCreateAudio

----------------------------------------------------------------------------
\* tts_script.py, invocation i

\* the script is run: __main__ calls synthesize_text(my_project_text), the output
\* path is the parameter's default
TtsMain(i) ==
    /\ script = "tts"
    /\ tts_pc[i] = "idle"
    /\ text_to_speak' = [text_to_speak EXCEPT ![i] = my_project_text]
    /\ output_filename' = [output_filename EXCEPT ![i] = default_output_filename]
    /\ fs_at_call' = [fs_at_call EXCEPT ![i] = fs]
    /\ tts_pc' = [tts_pc EXCEPT ![i] = "create_client"]
    /\ UNCHANGED <<script, fs, envChanges, sttVars, tts_response, tts_calls, out,
                   tts_stdout, tts_outcome>>

\* synthesize_text(text, path) called by some other caller
synthesize_text(i) ==
    /\ script = "tts"
    /\ tts_pc[i] = "idle"
    /\ \E text \in Texts, path \in OutPaths :
          /\ text_to_speak' = [text_to_speak EXCEPT ![i] = text]
          /\ output_filename' = [output_filename EXCEPT ![i] = path]
    /\ fs_at_call' = [fs_at_call EXCEPT ![i] = fs]
    /\ tts_pc' = [tts_pc EXCEPT ![i] = "create_client"]
    /\ UNCHANGED <<script, fs, envChanges, sttVars, tts_response, tts_calls, out,
                   tts_stdout, tts_outcome>>

\* client = texttospeech.TextToSpeechClient()
TtsCreateClient(i) ==
    /\ tts_pc[i] = "create_client"
    /\ \/ /\ tts_pc' = [tts_pc EXCEPT ![i] = "print_synthesizing"]
          /\ UNCHANGED tts_outcome
       \/ /\ tts_outcome' = [tts_outcome EXCEPT ![i] = CredentialsError]
          /\ tts_pc' = [tts_pc EXCEPT ![i] = "done"]
    /\ UNCHANGED <<script, fs, envChanges, sttVars, text_to_speak, output_filename,
                   tts_response, tts_calls, out, tts_stdout, fs_at_call>>

\* print(f"Synthesizing text: '{text_to_speak}'")
TtsPrintSynthesizing(i) ==
    /\ tts_pc[i] = "print_synthesizing"
    /\ tts_stdout' = [tts_stdout EXCEPT
                        ![i] = Append(@, Line("synthesizing", text_to_speak[i], 0))]
    /\ tts_pc' = [tts_pc EXCEPT ![i] = "synthesize"]
    /\ UNCHANGED <<script, fs, envChanges, sttVars, text_to_speak, output_filename,
                   tts_response, tts_calls, out, tts_outcome, fs_at_call>>

\* the path the with statement opens
OutputPathDefault(i) == default_output_filename
OutputPath(i) == output_filename[i]

\* client.synthesize_speech raised e: nothing catches it, and the file has not been
\* opened yet
SynthesizeRaisesAfterOpen(i, e) ==
    /\ tts_response' = [tts_response EXCEPT
                          ![i] = [NoReply EXCEPT !.status = "raised", !.error = e]]
    /\ tts_outcome' = [tts_outcome EXCEPT ![i] = e]
    /\ tts_pc' = [tts_pc EXCEPT ![i] = "done"]
    /\ fs' = [fs EXCEPT ![OutputPath(i)] = OpenForWrite(@)]
SynthesizeRaises(i, e) ==
    /\ tts_response' = [tts_response EXCEPT
                          ![i] = [NoReply EXCEPT !.status = "raised", !.error = e]]
    /\ tts_outcome' = [tts_outcome EXCEPT ![i] = e]
    /\ tts_pc' = [tts_pc EXCEPT ![i] = "done"]
    /\ fs' = fs

\* response = client.synthesize_speech(input=..., voice=..., audio_config=...)
TtsSynthesize(i) ==
    /\ tts_pc[i] = "synthesize"
    /\ tts_calls' = [tts_calls EXCEPT ![i] = @ + 1]
    /\ \/ \E payload \in Payloads :
            /\ tts_response' = [tts_response EXCEPT
                  ![i] = [NoReply EXCEPT !.status = "ok", !.audio_content = payload]]
            /\ tts_pc' = [tts_pc EXCEPT ![i] = "open"]
            /\ UNCHANGED <<fs, tts_outcome>>
       \/ \E e \in RemoteErrors : SynthesizeRaises(i, e)
    /\ UNCHANGED <<script, envChanges, sttVars, text_to_speak, output_filename, out,
                   tts_stdout, fs_at_call>>

\* with open(output_filename, "wb") as out
TtsOpen(i) ==
    /\ tts_pc[i] = "open"
    /\ \/ /\ fs' = [fs EXCEPT ![OutputPath(i)] = OpenForWrite(@)]
          /\ out' = [out EXCEPT ![i] = [NoHandle EXCEPT !.state = "open"]]
          /\ tts_pc' = [tts_pc EXCEPT ![i] = "write"]
          /\ UNCHANGED tts_outcome
       \/ /\ tts_outcome' = [tts_outcome EXCEPT ![i] = "PermissionError"]
          /\ tts_pc' = [tts_pc EXCEPT ![i] = "done"]
          /\ UNCHANGED <<fs, out>>
    /\ UNCHANGED <<script, envChanges, sttVars, text_to_speak, output_filename,
                   tts_response, tts_calls, tts_stdout, fs_at_call>>

\* out.write(response.audio_content): out is a buffered writer whose buffer is
\* empty.  While the bytes not yet written do not fit the buffer, out.write makes a
\* raw write of all of them at the handle's position; the raw write may come back
\* short, or raise: then the with block is left by the exception, out is closed
\* and the print is not reached.  Once the rest fits the buffer (at once, for a
\* payload up to the buffer size), it is stored there and out.write returns.
TtsWrite(i) ==
    /\ tts_pc[i] = "write"
    /\ LET payload == tts_response[i].audio_content
           rest == SubSeq(payload, out[i].pos + 1, Len(payload))
       IN  \/ /\ Len(rest) <= BufferSize
              /\ out' = [out EXCEPT ![i].data = rest]
              /\ tts_pc' = [tts_pc EXCEPT ![i] = "print_written"]
              /\ UNCHANGED <<fs, tts_outcome>>
           \/ /\ Len(rest) > BufferSize
              /\ \E j \in RawWriteCounts(Len(rest), ShortWrites(out, Procs)) :
                    /\ fs' = [fs EXCEPT ![OutputPath(i)] =
                                 WriteAt(@, out[i].pos, SubSeq(rest, 1, j))]
                    /\ out' = [out EXCEPT ![i] = AfterRawWrite(@, j, Len(rest))]
              /\ UNCHANGED <<tts_pc, tts_outcome>>
           \/ /\ Len(rest) > BufferSize
              /\ out' = [out EXCEPT ![i] = WithExit(@)]
              /\ tts_outcome' = [tts_outcome EXCEPT ![i] = "OSError"]
              /\ tts_pc' = [tts_pc EXCEPT ![i] = "done"]
              /\ UNCHANGED fs
    /\ UNCHANGED <<script, envChanges, sttVars, text_to_speak, output_filename,
                   tts_response, tts_calls, tts_stdout, fs_at_call>>

\* print(f'Audio content written to file "{output_filename}"'), inside the with block
TtsPrintWritten(i) ==
    /\ tts_pc[i] = "print_written"
    /\ tts_stdout' = [tts_stdout EXCEPT
                        ![i] = Append(@, Line("written", output_filename[i], 0))]
    /\ tts_pc' = [tts_pc EXCEPT ![i] = "close"]
    /\ UNCHANGED <<script, fs, envChanges, sttVars, text_to_speak, output_filename,
                   tts_response, tts_calls, out, tts_outcome, fs_at_call>>

\* the with block ends: closing out flushes the buffer, by raw writes at the
\* handle's position until the buffer is empty, then closes the file, and
\* synthesize_text returns.  A raw write may come back short, or raise (device
\* full, file size limit): then out is closed all the same and OSError leaves the
\* function, after the print.
TtsClose(i) ==
    /\ tts_pc[i] = "close"
    /\ LET buf == out[i].data
       IN  \/ /\ buf = <<>>
              /\ out' = [out EXCEPT ![i] = WithExit(@)]
              /\ tts_outcome' = [tts_outcome EXCEPT ![i] = "returned"]
              /\ tts_pc' = [tts_pc EXCEPT ![i] = "done"]
              /\ UNCHANGED fs
           \/ /\ buf # <<>>
              /\ \E j \in RawWriteCounts(Len(buf), ShortWrites(out, Procs)) :
                    /\ fs' = [fs EXCEPT ![OutputPath(i)] =
                                 WriteAt(@, out[i].pos, SubSeq(buf, 1, j))]
                    /\ out' = [out EXCEPT ![i] =
                                  [AfterRawWrite(@, j, Len(buf)) EXCEPT
                                      !.data = SubSeq(buf, j + 1, Len(buf))]]
              /\ UNCHANGED <<tts_pc, tts_outcome>>
           \/ /\ buf # <<>>
              /\ out' = [out EXCEPT ![i] = WithExit(@)]
              /\ tts_outcome' = [tts_outcome EXCEPT ![i] = "OSError"]
              /\ tts_pc' = [tts_pc EXCEPT ![i] = "done"]
              /\ UNCHANGED fs
    /\ UNCHANGED <<script, envChanges, sttVars, text_to_speak, output_filename,
                   tts_response, tts_calls, tts_stdout, fs_at_call>>

TtsNext ==
    \E i \in Procs :
        \/ TtsMain(i)
        \/ synthesize_text(i)
        \/ TtsCreateClient(i)
        \/ TtsPrintSynthesizing(i)
        \/ TtsSynthesize(i)
        \/ TtsOpen(i)
        \/ TtsWrite(i)
        \/ TtsPrintWritten(i)
        \/ TtsClose(i)

Next == SttNext \/ TtsNext
Spec == Init /\ [][Next]_vars

----------------------------------------------------------------------------
\* Properties

\* the lines of a given kind, in printing order
Kinds(lines, kind) == SelectSeq(lines, LAMBDA l : l.kind = kind)

SttRemoteFailed == stt_response.status = "raised"
TtsRemoteFailed(i) == tts_response[i].status = "raised"
TtsSucceeded(i) == tts_pc[i] = "done" /\ tts_outcome[i] = "returned"
\* no other invocation has opened a file
OthersNeverOpened(i) == \A j \in Procs \ {i} : out[j].state = "none"

\* C1: when the transcription entry point runs and audio.wav is found absent (by the
\* existence check or, the file having vanished after the check, by the open), the
\* not-found message is printed, recognize is never called and no exception leaves
\* the entry point.
C1_AbsentFileReported ==
    (/\ stt_entry = "main"
     /\ stt_pc = "done"
     /\ \/ Len(Kinds(stt_stdout, "not_found")) > 0
        \/ stt_outcome = "FileNotFoundError")
    => /\ Len(Kinds(stt_stdout, "not_found")) = 1
       /\ stt_calls = 0
       /\ stt_outcome = "returned"

\* C2: neither operation makes more than one remote call, and a call that raised
\* is not made again: the operation has ended with that single call.
C2_AtMostOneRemoteCall ==
    /\ stt_calls <= 1
    /\ SttRemoteFailed => (stt_pc = "done" /\ stt_calls = 1)
    /\ \A i \in Procs :
          /\ tts_calls[i] <= 1
          /\ TtsRemoteFailed(i) => (tts_pc[i] = "done" /\ tts_calls[i] = 1)

C2_Witness ==
    /\ stt_pc = "done"
    /\ SttRemoteFailed
    /\ stt_calls = 1

\* C3: an error raised by the remote client ends the operation with exactly that
\* error as its outcome, and no result output (separator, transcript or confidence
\* line, respectively the confirmation) has been printed.
C3_RemoteErrorPropagates ==
    /\ SttRemoteFailed =>
          /\ stt_pc = "done"
          /\ stt_outcome = stt_response.error
          /\ \A k \in 1..Len(stt_stdout) : stt_stdout[k].kind = "sending"
    /\ \A i \in Procs :
          TtsRemoteFailed(i) =>
             /\ tts_pc[i] = "done"
             /\ tts_outcome[i] = tts_response[i].error
             /\ \A k \in 1..Len(tts_stdout[i]) : tts_stdout[i][k].kind = "synthesizing"

C3_Witness ==
    /\ stt_pc = "done"
    /\ SttRemoteFailed
    /\ stt_response.error = "Unauthenticated"
    /\ stt_outcome = "Unauthenticated"

\* C4: after synthesize_text has returned normally (no other invocation having
\* opened a file), the output file holds exactly the payload the remote call
\* returned, whatever it held before, and the last line printed is the single
\* confirmation naming the output path.
C4_OutputIsPayload ==
    \A i \in Procs :
       (TtsSucceeded(i) /\ OthersNeverOpened(i)) =>
          /\ fs[output_filename[i]] = tts_response[i].audio_content
          /\ Len(tts_stdout[i]) = 2
          /\ tts_stdout[i][2] = Line("written", output_filename[i], 0)

C4_Witness ==
    \E i \in Procs :
       /\ TtsSucceeded(i)
       /\ OthersNeverOpened(i)
       /\ fs_at_call[i][output_filename[i]] = OldContent
       /\ tts_response[i].audio_content = BigPayload
       /\ out[i].short = 1
       /\ out[i].pos = Len(BigPayload)
       /\ fs[output_filename[i]] = BigPayload

\* C5: after a successful recognize call the function returns normally having
\* printed, after the "sending" line, one separator, one transcript and one
\* confidence line per entry of response.results, in the entries' order, each taken
\* from the entry's first alternative; an empty result sequence prints none.
C5_OneTranscriptPerResult ==
    (stt_pc = "done" /\ stt_response.status = "ok") =>
       LET res == stt_response.results
       IN  /\ stt_outcome = "returned"
           /\ Len(stt_stdout) = 1 + 3 * Len(res)
           /\ Len(Kinds(stt_stdout, "transcript")) = Len(res)
           /\ Len(Kinds(stt_stdout, "confidence")) = Len(res)
           /\ \A k \in 1..Len(res) :
                 /\ stt_stdout[3 * k].kind = "transcript"
                 /\ stt_stdout[3 * k].text = res[k].alternatives[1].transcript
                 /\ stt_stdout[3 * k + 1].kind = "confidence"
                 /\ stt_stdout[3 * k + 1].num =
                        Format2(res[k].alternatives[1].confidence)

C5_Witness ==
    /\ stt_pc = "done"
    /\ stt_response.status = "ok"
    /\ Len(stt_response.results) = 2
    /\ Len(stt_response.results[1].alternatives) = 2
    /\ Len(stt_response.results[2].alternatives) = 1
    /\ Len(Kinds(stt_stdout, "transcript")) = 2

\* C6: when an operation has ended, on whatever path, the file it opened is closed.
C6_FilesClosedAtEnd ==
    /\ stt_pc = "done" => audio_file.state # "open"
    /\ \A i \in Procs : tts_pc[i] = "done" => out[i].state # "open"

C6_Witness ==
    \E i \in Procs :
       /\ tts_pc[i] = "done"
       /\ tts_outcome[i] = "OSError"
       /\ out[i].state = "closed"
       /\ out[i].short = 1
       /\ Len(Kinds(tts_stdout[i], "written")) = 1

\* C7 as stated: when two invocations that use the default output path have both
\* returned normally, each invocation's output file holds its own payload.
C7_IndependentInvocations ==
    (\A j \in Procs : TtsSucceeded(j) /\ output_filename[j] = default_output_filename)
    => \A i \in Procs : fs[output_filename[i]] = tts_response[i].audio_content

\* C7 amended: when two invocations that use different output paths have both
\* returned normally, each invocation's output file holds its own payload.
C7_IndependentOnDistinctPaths ==
    (/\ \A j \in Procs : TtsSucceeded(j)
     /\ output_filename[1] # output_filename[2])
    => \A i \in Procs : fs[output_filename[i]] = tts_response[i].audio_content

C7_Witness ==
    /\ \A j \in Procs : TtsSucceeded(j)
    /\ output_filename[1] # output_filename[2]
    /\ tts_response[1].audio_content = BigPayload
    /\ out[1].short = 1
    /\ tts_response[2].audio_content = <<0>>
    /\ fs_at_call[2][output_filename[1]] = <<>>

\* C8: transcribe_audio_file called with a path at which no file exists (and none
\* appears) always ends in FileNotFoundError, without a recognize call.
C8_MissingPathAlwaysFileNotFound ==
    (/\ stt_entry = "call"
     /\ stt_pc = "done"
     /\ envChanges = 0
     /\ fs[audio_file_name] = Absent)
    => /\ stt_outcome = "FileNotFoundError"
       /\ stt_calls = 0

\* C9: when synthesize_text has ended because the client could not be created or
\* synthesize_speech raised (no other invocation having opened a file), the file
\* system is as it was when the function was called and no file was opened.
C9_RemoteFailureLeavesFiles ==
    \A i \in Procs :
       (/\ tts_pc[i] = "done"
        /\ TtsRemoteFailed(i) \/ tts_outcome[i] = CredentialsError
        /\ OthersNeverOpened(i))
       => /\ fs = fs_at_call[i]
          /\ out[i].state = "none"

C9_Witness ==
    \E i \in Procs :
       /\ tts_pc[i] = "done"
       /\ TtsRemoteFailed(i)
       /\ OthersNeverOpened(i)
       /\ fs[output_filename[i]] = OldContent

\* C10: the confirmation is printed at most once, and only when the remote call
\* returned, the file was opened and the payload was written without error: no
\* invocation whose remote call, open or write raised has printed it.
C10_ConfirmationOnlyAfterWrite ==
    \A i \in Procs :
       LET written == Kinds(tts_stdout[i], "written")
       IN  /\ Len(written) <= 1
           /\ Len(written) = 1 =>
                 /\ tts_response[i].status = "ok"
                 /\ out[i].state # "none"
                 /\ tts_outcome[i] \in {"running", "returned"}

====
